---------------------------- MODULE Spec2Model ----------------------------
(***************************************************************************)
(* A model of the CHIP-8 machine of src/src/main.rs: the struct Chip8, its *)
(* constructor, the fetch / decode / dispatch cycle (execute_cycle,        *)
(* get_opcode, check_opcode) and every instruction handler.                *)
(*                                                                         *)
(* A Rust panic ends the process: the model records it in `panic` and no   *)
(* operation is enabled afterwards.  Arithmetic overflow on the primitive  *)
(* integer types panics in a build with overflow checks and wraps in a     *)
(* build without them; a handler that can overflow takes either outcome.   *)
(***************************************************************************)
EXTENDS Integers, Sequences, FiniteSets

VARIABLES
    i,              \* Chip8::i, the index register (usize)
    pc,             \* Chip8::pc, the program counter (usize)
    v,              \* Chip8::v, the registers V0..VF ([u8; 16])
    stack,          \* Chip8::stack (Vec<u16>)
    sp,             \* Chip8::sp
    memory,         \* Chip8::memory ([u8; 4096]); a cell not in the domain holds 0
    delay_timer,    \* Chip8::delay_timer
    sound_timer,    \* Chip8::sound_timer
    wait_for_key,   \* Chip8::wait_for_key, (bool, u8)
    shift_vy,       \* Chip8::shift_vy
    ops,            \* execute_cycle's local `ops`: the opcode fetched last
    panic,          \* the panic that ended the process, or NoPanic
    loaded          \* whether the host has written a program into memory

vars == <<i, pc, v, stack, sp, memory, delay_timer, sound_timer,
          wait_for_key, shift_vy, ops, panic, loaded>>

-----------------------------------------------------------------------------
(* Program constants.                                                      *)

FLAG == 15
STACK_SIZE == 16
REGISTER_SIZE == 16
PROGRAM_START == 512
MEMORY_SIZE == 4096

\* FONT_SET: five bytes for each of the glyphs 0 .. F.  Nothing reads it.
FONT_SET ==
    << 240, 144, 144, 144, 240,   32,  96,  32,  32, 112,
       240,  16, 240, 128, 240,  240,  16, 240,  16, 240,
       144, 144, 240,  16,  16,  240, 128, 240,  16, 240,
       240, 128, 240, 144, 240,  240,  16,  32,  64,  64,
       240, 144, 240, 144, 240,  240, 144, 240,  16, 240,
       240, 144, 240, 144, 144,  224, 144, 224, 144, 224,
       240, 128, 128, 128, 240,  224, 144, 144, 144, 224,
       240, 128, 240, 128, 240,  240, 128, 240, 128, 128 >>

\* The number of values of u8 and of u16.
U8 == 2 ^ 8
U16 == 2 ^ 16

Regs == 0 .. (REGISTER_SIZE - 1)

-----------------------------------------------------------------------------
(* Bit operations on naturals, as the machine's &, | and ^ compute them.   *)

RECURSIVE BitAnd(_, _)
BitAnd(a, b) ==
    IF a = 0 \/ b = 0 THEN 0
    ELSE (a % 2) * (b % 2) + 2 * BitAnd(a \div 2, b \div 2)

RECURSIVE BitOr(_, _)
BitOr(a, b) ==
    IF a = 0 THEN b
    ELSE IF b = 0 THEN a
    ELSE (IF a % 2 = 1 \/ b % 2 = 1 THEN 1 ELSE 0) + 2 * BitOr(a \div 2, b \div 2)

RECURSIVE BitXor(_, _)
BitXor(a, b) ==
    IF a = 0 THEN b
    ELSE IF b = 0 THEN a
    ELSE ((a + b) % 2) + 2 * BitXor(a \div 2, b \div 2)

\* `b as i8`: the two's complement reading of a byte.
AsI8(b) == IF b >= 128 THEN b - U8 ELSE b

\* Whether n is a value of i8.
FitsI8(n) == n >= -128 /\ n <= 127

\* n wrapped to i8, as arithmetic without overflow checks leaves it.
WrapI8(n) == AsI8(n % U8)

-----------------------------------------------------------------------------
(* Memory: [u8; MEMORY_SIZE], zero-filled by the constructor.  The model   *)
(* keeps the cells that were written; every other cell holds 0.            *)

\* A bounds check that lets the index MEMORY_SIZE through.
InBoundsInclusive(a) == a >= 0 /\ a <= MEMORY_SIZE

\* Whether a is an index of memory.
InBounds(a) == a >= 0 /\ a < MEMORY_SIZE

MemRead(mem, a) == IF a \in DOMAIN mem THEN mem[a] ELSE 0

MemWrite(mem, a, b) == [c \in (DOMAIN mem) \cup {a} |-> IF c = a THEN b ELSE mem[c]]

-----------------------------------------------------------------------------
(* Panics.                                                                 *)

NoPanic == [kind |-> "none", info |-> <<>>]

HexChars == <<"0", "1", "2", "3", "4", "5", "6", "7",
              "8", "9", "A", "B", "C", "D", "E", "F">>

\* format!("{:0>wX}", n): upper-case hexadecimal, padded with zeros to at
\* least w digits.
RECURSIVE FmtHex(_, _)
FmtHex(n, w) ==
    IF n < 16 /\ w <= 1 THEN <<HexChars[n + 1]>>
    ELSE Append(FmtHex(n \div 16, w - 1), HexChars[(n % 16) + 1])

\* opcode_not_implemented!(op, pc)
OpcodePanic(op, at) ==
    [kind |-> "opcode not implemented", info |-> <<FmtHex(op, 4), FmtHex(at, 5)>>]

\* memory[index] with index >= MEMORY_SIZE
BoundsPanic(index) ==
    [kind |-> "index out of bounds", info |-> <<MEMORY_SIZE, index>>]

\* an arithmetic operation that overflowed in a build with overflow checks
OverflowPanic(what) == [kind |-> "arithmetic overflow", info |-> <<what>>]

\* Option::expect on None
ExpectPanic(msg) == [kind |-> "expect", info |-> <<msg>>]

-----------------------------------------------------------------------------
(* Model bounds.                                                           *)

\* Vec<u16> has no capacity limit; the model stops calling at this depth.
MaxStack == 18

\* Register and operand values 0 .. MaxLow are tried, beside the values the
\* flag conventions turn on.
MaxLow == 3

\* The deepest chain of nested calls among the programs.
MaxNest == 3

\* The index register is a usize that FX1E can raise without limit; the
\* model stops adding to it above this value.
MaxIndex == 65800

-----------------------------------------------------------------------------
(* Fetch and decode.                                                       *)

\* get_opcode: (memory[pc] as u16) << 8 | (memory[pc+1] as u16); the two
\* operands of | share no bit, so it adds them.
get_opcode == ((MemRead(memory, pc) * 256) % U16) + MemRead(memory, pc + 1)

\* The index on which get_opcode's indexing panics, or -1.
get_opcode_fault ==
    IF ~InBounds(pc) THEN pc
    ELSE IF ~InBounds(pc + 1) THEN pc + 1
    ELSE -1

\* check_opcode's op_tuple: the four nibbles, most significant first.  A
\* mask with 0xF000, 0x0F00, 0x00F0 or 0x000F followed by the shift is the
\* hexadecimal digit at that place.
op_tuple(op) ==
    << (op \div 4096) % 16, (op \div 256) % 16, (op \div 16) % 16, op % 16 >>

\* ops & 0x0FFF and (ops & 0x00FF) as u8: the low 12 and the low 8 bits.
NNN(op) == op % 4096
NN(op) == (op % 256) % U8

-----------------------------------------------------------------------------
(* The instruction handlers.  Each states the machine fields it assigns     *)
(* and leaves the rest unchanged; execute_cycle adds the fetch.            *)

timers == <<delay_timer, sound_timer>>

\* set_reg_vn with the program counter advanced twice.
set_reg_vn_advancing_twice(n, val) ==
    /\ v' = [v EXCEPT ![n] = val]
    /\ pc' = pc + 4
    /\ UNCHANGED <<i, stack, sp, memory, timers, wait_for_key, panic>>

\* set_reg_vn(n, val)
set_reg_vn(n, val) ==
    /\ v' = [v EXCEPT ![n] = val]
    /\ pc' = pc + 2
    /\ UNCHANGED <<i, stack, sp, memory, timers, wait_for_key, panic>>

\* cls
cls ==
    /\ pc' = pc + 2
    /\ UNCHANGED <<i, v, stack, sp, memory, timers, wait_for_key, panic>>

\* reset with the memory zeroed as well.
reset_clearing_memory ==
    /\ v' = [r \in Regs |-> 0]
    /\ stack' = <<>>
    /\ pc' = PROGRAM_START
    /\ i' = 0
    /\ sp' = 0
    /\ memory' = <<>>
    /\ UNCHANGED <<timers, wait_for_key, panic>>

\* reset
reset ==
    /\ v' = [r \in Regs |-> 0]
    /\ stack' = <<>>
    /\ pc' = PROGRAM_START
    /\ i' = 0
    /\ sp' = 0
    /\ UNCHANGED <<memory, timers, wait_for_key, panic>>

\* jump_addr(addr)
jump_addr(addr) ==
    /\ pc' = addr
    /\ UNCHANGED <<i, v, stack, sp, memory, timers, wait_for_key, panic>>

\* ret: pops the stack and jumps there; check_opcode never calls it.
ret ==
    IF stack = <<>>
    THEN /\ panic' = ExpectPanic("Stored address")
         /\ UNCHANGED <<i, pc, v, stack, sp, memory, timers, wait_for_key>>
    ELSE /\ pc' = stack[Len(stack)]
         /\ stack' = SubSeq(stack, 1, Len(stack) - 1)
         /\ UNCHANGED <<i, v, sp, memory, timers, wait_for_key, panic>>

\* call_sub(addr): stack.push(pc as u16); jump_addr(addr)
call_sub(addr) ==
    /\ Len(stack) < MaxStack
    /\ stack' = Append(stack, pc % U16)
    /\ pc' = addr
    /\ UNCHANGED <<i, v, sp, memory, timers, wait_for_key, panic>>

\* pc += if cond {4} else {2}: the body of every skip that is implemented.
skip_if(cond) ==
    /\ pc' = pc + (IF cond THEN 4 ELSE 2)
    /\ UNCHANGED <<i, v, stack, sp, memory, timers, wait_for_key, panic>>

se_vx(x, nn) == skip_if(v[x] = nn)

sne_vx(x, nn) == skip_if(v[x] # nn)

se_vx_vy(x, y) == skip_if(v[x] = v[y])

skip_ne_vx_vy(x, y) == skip_if(v[x] # v[y])

\* 7XNN: set_reg_vn(x, vx.wrapping_add(nn))
add_vx_nn(x, nn) == set_reg_vn(x, (v[x] + nn) % U8)

\* 8XY0: set_reg_vn(x, vy)
ld_vx_vy(x, y) == set_reg_vn(x, v[y])

or_vx_vy(x, y) == set_reg_vn(x, BitOr(v[x], v[y]))

and_vx_vy(x, y) == set_reg_vn(x, BitAnd(v[x], v[y]))

xor_vx_vy(x, y) == set_reg_vn(x, BitXor(v[x], v[y]))

\* The registers after v[x] = result; v[FLAG] = flag, in that order.
result_then_flag(x, result, flag) ==
    [[v EXCEPT ![x] = result] EXCEPT ![FLAG] = flag]

\* add_vx_vy with the carry taken from sum >= 0xFF.
add_vx_vy_carry_at_255(x, y) ==
    LET sum == v[x] + v[y] IN
    /\ v' = result_then_flag(x, sum % U8, IF sum >= 255 THEN 1 ELSE 0)
    /\ pc' = pc + 2
    /\ UNCHANGED <<i, stack, sp, memory, timers, wait_for_key, panic>>

\* add_vx_vy
add_vx_vy(x, y) ==
    LET sum == v[x] + v[y] IN
    /\ v' = result_then_flag(x, sum % U8, IF sum > 255 THEN 1 ELSE 0)
    /\ pc' = pc + 2
    /\ UNCHANGED <<i, stack, sp, memory, timers, wait_for_key, panic>>

\* The flag sub_vx_vy and subn_vx_vy store for the i8 difference diff.
sub_flag(diff) == IF diff < 0 THEN 1 ELSE 0

\* let diff: i8 = a as i8 - b as i8; v[x] = diff as u8; v[FLAG] = flag
sub_i8(x, a, b) ==
    LET wide == AsI8(a) - AsI8(b) IN
    \/ /\ ~FitsI8(wide)                 \* overflow checks on: the subtraction panics
       /\ panic' = OverflowPanic("subtract")
       /\ UNCHANGED <<i, pc, v, stack, sp, memory, timers, wait_for_key>>
    \/ /\ v' = result_then_flag(x, WrapI8(wide) % U8, sub_flag(WrapI8(wide)))
       /\ pc' = pc + 2
       /\ UNCHANGED <<i, stack, sp, memory, timers, wait_for_key, panic>>

\* sub_vx_vy
sub_vx_vy(x, y) == sub_i8(x, v[x], v[y])

\* subn_vx_vy
subn_vx_vy(x, y) == sub_i8(x, v[y], v[x])

\* let n = if self.shift_vy {y} else {x}
shift_source(x, y) == IF shift_vy THEN y ELSE x

\* rshft_vx_vy: v[FLAG] = v[n] & 0x01; then v[x] = v[n] >> 1
rshft_vx_vy(x, y) ==
    LET n == shift_source(x, y)
        v1 == [v EXCEPT ![FLAG] = BitAnd(v[n], 1)]
    IN
    /\ v' = [v1 EXCEPT ![x] = v1[n] \div 2]
    /\ pc' = pc + 2
    /\ UNCHANGED <<i, stack, sp, memory, timers, wait_for_key, panic>>

\* The flag lshft_vx_vy stores for the source value s: s & 0x80.
lshft_flag(s) == BitAnd(s, 128)

\* lshft_vx_vy: v[FLAG] = v[n] & 0x80; then v[x] = v[n] << 1
lshft_vx_vy(x, y) ==
    LET n == shift_source(x, y)
        v1 == [v EXCEPT ![FLAG] = lshft_flag(v[n])]
    IN
    /\ v' = [v1 EXCEPT ![x] = (v1[n] * 2) % U8]
    /\ pc' = pc + 2
    /\ UNCHANGED <<i, stack, sp, memory, timers, wait_for_key, panic>>

\* set_i_addr(addr)
set_i_addr(addr) ==
    /\ i' = addr
    /\ pc' = pc + 2
    /\ UNCHANGED <<v, stack, sp, memory, timers, wait_for_key, panic>>

\* BNNN: jump_addr(ops & 0x0FFF + v0); `+` binds tighter than `&`.
jump_v0(op) == jump_addr(BitAnd(op, (4095 + v[0]) % U16))

\* rnd_vx_nn: v[x] = random::<u8>() & nn
rnd_vx_nn(x, nn) ==
    \E r \in 0 .. (U8 - 1) :
        /\ v' = [v EXCEPT ![x] = BitAnd(r, nn)]
        /\ pc' = pc + 2
        /\ UNCHANGED <<i, stack, sp, memory, timers, wait_for_key, panic>>

\* draw_vx_vy: computes positions and a range, draws nothing.
draw_vx_vy(x, y, n) ==
    /\ pc' = pc + 2
    /\ UNCHANGED <<i, v, stack, sp, memory, timers, wait_for_key, panic>>

\* skip_vx and skipn_vx have empty bodies.
skip_vx(x) ==
    UNCHANGED <<i, pc, v, stack, sp, memory, timers, wait_for_key, panic>>

skipn_vx(x) ==
    UNCHANGED <<i, pc, v, stack, sp, memory, timers, wait_for_key, panic>>

\* set_delay: v[x] = delay_timer
set_delay(x) ==
    /\ v' = [v EXCEPT ![x] = delay_timer]
    /\ pc' = pc + 2
    /\ UNCHANGED <<i, stack, sp, memory, timers, wait_for_key, panic>>

\* wait_vx: wait_for_key = (true, x)
wait_vx(x) ==
    /\ wait_for_key' = <<TRUE, x>>
    /\ UNCHANGED <<i, pc, v, stack, sp, memory, timers, panic>>

\* set_vx_delay: delay_timer = v[x]
set_vx_delay(x) ==
    /\ delay_timer' = v[x]
    /\ pc' = pc + 2
    /\ UNCHANGED <<i, v, stack, sp, memory, sound_timer, wait_for_key, panic>>

\* set_vx_sound: sound_timer = v[x]
set_vx_sound(x) ==
    /\ sound_timer' = v[x]
    /\ pc' = pc + 2
    /\ UNCHANGED <<i, v, stack, sp, memory, delay_timer, wait_for_key, panic>>

\* add_vx_to_i: i += v[x] (usize)
add_vx_to_i(x) ==
    /\ i + v[x] <= MaxIndex
    /\ i' = i + v[x]
    /\ pc' = pc + 2
    /\ UNCHANGED <<v, stack, sp, memory, timers, wait_for_key, panic>>

\* set_i_sprite: i = (v[x] * 5) as usize, the product computed in u8
set_i_sprite(x) ==
    \/ /\ v[x] * 5 >= U8                \* overflow checks on: the product panics
       /\ panic' = OverflowPanic("multiply")
       /\ UNCHANGED <<i, pc, v, stack, sp, memory, timers, wait_for_key>>
    \/ /\ i' = (v[x] * 5) % U8
       /\ pc' = pc + 2
       /\ UNCHANGED <<v, stack, sp, memory, timers, wait_for_key, panic>>

\* A sequence of indexed stores memory[a] = b in program order: the memory
\* after the stores that precede the first index out of bounds, and that
\* index (-1 when every store is in bounds).
RECURSIVE store_all(_, _)
store_all(mem, writes) ==
    IF writes = <<>> THEN [memory |-> mem, fault |-> -1]
    ELSE LET a == writes[1][1]
             b == writes[1][2]
         IN IF ~InBounds(a) THEN [memory |-> mem, fault |-> a]
            ELSE store_all(MemWrite(mem, a, b), Tail(writes))

\* set_bcd_vx with vx / 10 stored as the tens digit.
set_bcd_vx_tens_unreduced(x) ==
    LET vx == v[x]
        done == store_all(memory, << <<i, vx \div 100>>,
                                     <<i + 1, vx \div 10>>,
                                     <<i + 2, (vx % 100) % 10>> >>)
    IN
    /\ memory' = done.memory
    /\ IF done.fault = -1
       THEN /\ pc' = pc + 2
            /\ UNCHANGED <<i, v, stack, sp, timers, wait_for_key, panic>>
       ELSE /\ panic' = BoundsPanic(done.fault)
            /\ UNCHANGED <<i, pc, v, stack, sp, timers, wait_for_key>>

\* set_bcd_vx
set_bcd_vx(x) ==
    LET vx == v[x]
        done == store_all(memory, << <<i, vx \div 100>>,
                                     <<i + 1, (vx \div 10) % 10>>,
                                     <<i + 2, (vx % 100) % 10>> >>)
    IN
    /\ memory' = done.memory
    /\ IF done.fault = -1
       THEN /\ pc' = pc + 2
            /\ UNCHANGED <<i, v, stack, sp, timers, wait_for_key, panic>>
       ELSE /\ panic' = BoundsPanic(done.fault)
            /\ UNCHANGED <<i, pc, v, stack, sp, timers, wait_for_key>>

\* set_mem_regs: for k in 0..x+1 { memory[i + k] = v[k] }; i += x + 1
set_mem_regs(x) ==
    LET done == store_all(memory, [k \in 1 .. (x + 1) |-> <<i + (k - 1), v[k - 1]>>])
    IN
    /\ memory' = done.memory
    /\ IF done.fault = -1
       THEN /\ i' = i + x + 1
            /\ pc' = pc + 2
            /\ UNCHANGED <<v, stack, sp, timers, wait_for_key, panic>>
       ELSE /\ panic' = BoundsPanic(done.fault)
            /\ UNCHANGED <<i, pc, v, stack, sp, timers, wait_for_key>>

\* The registers after for k in from..x { v[k] = memory[base + k] }, and the
\* first index out of bounds (-1 when every load is in bounds).
RECURSIVE load_all(_, _, _, _)
load_all(regs, base, from, x) ==
    IF from > x THEN [v |-> regs, fault |-> -1]
    ELSE IF ~InBounds(base + from) THEN [v |-> regs, fault |-> base + from]
    ELSE load_all([regs EXCEPT ![from] = MemRead(memory, base + from)],
                  base, from + 1, x)

\* fill_regs_mem with the loop over 0..x in place of 0..(x + 1).
fill_regs_mem_exclusive(x) ==
    LET done == load_all(v, i, 0, x - 1) IN
    /\ v' = done.v
    /\ IF done.fault = -1
       THEN /\ i' = i + x + 1
            /\ pc' = pc + 2
            /\ UNCHANGED <<stack, sp, memory, timers, wait_for_key, panic>>
       ELSE /\ panic' = BoundsPanic(done.fault)
            /\ UNCHANGED <<i, pc, stack, sp, memory, timers, wait_for_key>>

\* fill_regs_mem
fill_regs_mem(x) ==
    LET done == load_all(v, i, 0, x) IN
    /\ v' = done.v
    /\ IF done.fault = -1
       THEN /\ i' = i + x + 1
            /\ pc' = pc + 2
            /\ UNCHANGED <<stack, sp, memory, timers, wait_for_key, panic>>
       ELSE /\ panic' = BoundsPanic(done.fault)
            /\ UNCHANGED <<i, pc, stack, sp, memory, timers, wait_for_key>>

\* opcode_not_implemented!(ops, self.pc)
opcode_not_implemented(op) ==
    /\ panic' = OpcodePanic(op, pc)
    /\ UNCHANGED <<i, pc, v, stack, sp, memory, timers, wait_for_key>>

-----------------------------------------------------------------------------
(* Dispatch.                                                               *)

\* A nibble of a match pattern that is `_` or a binding.
W == -1

matches(t, pat) == \A k \in 1 .. 4 : pat[k] = W \/ pat[k] = t[k]

\* Whether op is what check_opcode matches against pat.
decodes(op, pat) == matches(op_tuple(op), pat)

\* The patterns with (0x5, x, y, _) in place of (0x5, x, y, 0x0).
PatternsAny5XY ==
    << <<0, 0, 14, 0>>, <<0, 0, 14, 14>>, <<1, W, W, W>>, <<2, W, W, W>>,
       <<3, W, W, W>>, <<4, W, W, W>>, <<5, W, W, W>>, <<6, W, W, W>>,
       <<7, W, W, W>>, <<8, W, W, 0>>, <<8, W, W, 1>>, <<8, W, W, 2>>,
       <<8, W, W, 3>>, <<8, W, W, 4>>, <<8, W, W, 5>>, <<8, W, W, 6>>,
       <<8, W, W, 7>>, <<8, W, W, 14>>, <<9, W, W, 0>>, <<10, W, W, W>>,
       <<11, W, W, W>>, <<12, W, W, W>>, <<13, W, W, W>>, <<14, W, 9, 14>>,
       <<14, W, 10, 1>>, <<15, W, 0, 7>>, <<15, W, 0, 10>>, <<15, W, 1, 5>>,
       <<15, W, 1, 8>>, <<15, W, 1, 14>>, <<15, W, 2, 9>>, <<15, W, 3, 3>>,
       <<15, W, 5, 5>>, <<15, W, 6, 5>>  >>

\* The patterns of check_opcode's match, in its order.
Patterns ==
    << <<0, 0, 14, 0>>, <<0, 0, 14, 14>>, <<1, W, W, W>>, <<2, W, W, W>>,
       <<3, W, W, W>>, <<4, W, W, W>>, <<5, W, W, 0>>, <<6, W, W, W>>,
       <<7, W, W, W>>, <<8, W, W, 0>>, <<8, W, W, 1>>, <<8, W, W, 2>>,
       <<8, W, W, 3>>, <<8, W, W, 4>>, <<8, W, W, 5>>, <<8, W, W, 6>>,
       <<8, W, W, 7>>, <<8, W, W, 14>>, <<9, W, W, 0>>, <<10, W, W, W>>,
       <<11, W, W, W>>, <<12, W, W, W>>, <<13, W, W, W>>, <<14, W, 9, 14>>,
       <<14, W, 10, 1>>, <<15, W, 0, 7>>, <<15, W, 0, 10>>, <<15, W, 1, 5>>,
       <<15, W, 1, 8>>, <<15, W, 1, 14>>, <<15, W, 2, 9>>, <<15, W, 3, 3>>,
       <<15, W, 5, 5>>, <<15, W, 6, 5>>  >>

\* Whether the match reaches its last arm, `_`.
no_pattern(op) == \A k \in 1 .. Len(Patterns) : ~decodes(op, Patterns[k])

\* The process is alive, get_opcode returns, and the opcode is what
\* check_opcode matches against pattern number k.
arm(k) ==
    /\ panic = NoPanic
    /\ get_opcode_fault = -1
    /\ decodes(get_opcode, Patterns[k])
    /\ ops' = get_opcode
    /\ UNCHANGED <<shift_vy, loaded>>

\* The last arm of the match: no pattern matched.
last_arm ==
    /\ panic = NoPanic
    /\ get_opcode_fault = -1
    /\ no_pattern(get_opcode)
    /\ ops' = get_opcode
    /\ UNCHANGED <<shift_vy, loaded>>

\* The bindings of the match, and the operands check_opcode computes.
X == op_tuple(get_opcode)[2]
Y == op_tuple(get_opcode)[3]
N == op_tuple(get_opcode)[4]

\* check_opcode(ops), for the opcode get_opcode returns
check_opcode ==
    \/ arm(1) /\ cls
    \/ arm(2) /\ reset
    \/ arm(3) /\ jump_addr(NNN(get_opcode))
    \/ arm(4) /\ call_sub(NNN(get_opcode))
    \/ arm(5) /\ se_vx(X, NN(get_opcode))
    \/ arm(6) /\ sne_vx(X, NN(get_opcode))
    \/ arm(7) /\ se_vx_vy(X, Y)
    \/ arm(8) /\ set_reg_vn(X, NN(get_opcode))
    \/ arm(9) /\ add_vx_nn(X, NN(get_opcode))
    \/ arm(10) /\ ld_vx_vy(X, Y)
    \/ arm(11) /\ or_vx_vy(X, Y)
    \/ arm(12) /\ and_vx_vy(X, Y)
    \/ arm(13) /\ xor_vx_vy(X, Y)
    \/ arm(14) /\ add_vx_vy(X, Y)
    \/ arm(15) /\ sub_vx_vy(X, Y)
    \/ arm(16) /\ rshft_vx_vy(X, Y)
    \/ arm(17) /\ subn_vx_vy(X, Y)
    \/ arm(18) /\ lshft_vx_vy(X, Y)
    \/ arm(19) /\ skip_ne_vx_vy(X, Y)
    \/ arm(20) /\ set_i_addr(NNN(get_opcode))
    \/ arm(21) /\ jump_v0(get_opcode)
    \/ arm(22) /\ rnd_vx_nn(X, NN(get_opcode))
    \/ arm(23) /\ draw_vx_vy(X, Y, N)
    \/ arm(24) /\ skip_vx(X)
    \/ arm(25) /\ skipn_vx(X)
    \/ arm(26) /\ set_delay(X)
    \/ arm(27) /\ wait_vx(X)
    \/ arm(28) /\ set_vx_delay(X)
    \/ arm(29) /\ set_vx_sound(X)
    \/ arm(30) /\ add_vx_to_i(X)
    \/ arm(31) /\ set_i_sprite(X)
    \/ arm(32) /\ set_bcd_vx(X)
    \/ arm(33) /\ set_mem_regs(X)
    \/ arm(34) /\ fill_regs_mem(X)
    \/ last_arm /\ opcode_not_implemented(get_opcode)

\* get_opcode's indexing panics: memory[pc] or memory[pc + 1] is out of bounds.
get_opcode_panics ==
    /\ panic = NoPanic
    /\ get_opcode_fault # -1
    /\ panic' = BoundsPanic(get_opcode_fault)
    /\ UNCHANGED <<i, pc, v, stack, sp, memory, timers, wait_for_key,
                   shift_vy, ops, loaded>>

\* execute_cycle: let ops = self.get_opcode(); self.check_opcode(ops)
execute_cycle ==
    \/ get_opcode_panics
    \/ check_opcode

-----------------------------------------------------------------------------
(* The host.  The repository has no ROM loader and no caller of reset      *)
(* other than check_opcode; the host writes the program bytes at           *)
(* PROGRAM_START before the first cycle and may call reset at any time.    *)

\* The value of `ops` before the first fetch.
NoOps == -1

\* Opcodes from nibbles, from a register and a byte, from an address.
Op(a, b, c, d) == a * 4096 + b * 256 + c * 16 + d
OpXNN(a, x, nn) == a * 4096 + x * 256 + nn
OpNNN(a, nnn) == a * 4096 + nnn

\* The bytes of a program, big-endian, at PROGRAM_START.
rom_image(prog) ==
    [a \in PROGRAM_START .. (PROGRAM_START + 2 * Len(prog) - 1) |->
        LET word == prog[((a - PROGRAM_START) \div 2) + 1] IN
        IF (a - PROGRAM_START) % 2 = 0 THEN word \div 256 ELSE word % 256]

\* The register values and immediates the programs use.
ByteSamples == (0 .. MaxLow) \cup {5, 128, 255}

\* The registers the programs use: two ordinary ones and the flag register.
RegSamples == {0, 1, FLAG}

\* The index values the programs use: low memory, free memory, and the
\* last three cells.
IndexSamples == {0, 768, MEMORY_SIZE - 3, MEMORY_SIZE - 2, MEMORY_SIZE - 1}

\* The instructions that store a flag: 8XY4, 8XY5, 8XY6, 8XY7, 8XYE.
FlagOps(x, y) == {Op(8, x, y, n) : n \in {4, 5, 6, 7, 14}}

\* The other opcodes 8XYn and the other opcodes that name two registers,
\* with some that match no pattern.
TwoRegOps(x, y) ==
    {Op(8, x, y, n) : n \in (0 .. 15) \ {4, 5, 6, 7, 14}}
        \cup {Op(5, x, y, 0), Op(5, x, y, 1), Op(9, x, y, 0), Op(9, x, y, 2),
              Op(13, x, y, 1)}

\* The opcodes that name one register, with some that match no pattern.
OneRegOps(x) ==
    {OpXNN(a, x, nn) : a \in {3, 4, 7}, nn \in {0, 1, 128, 255}}
        \cup {OpXNN(12, x, nn) : nn \in {0, 1, 3}}
        \cup {OpXNN(14, x, nn) : nn \in {158, 161, 159, 0}}
        \cup {OpXNN(15, x, nn) : nn \in {7, 10, 21, 24, 30, 41, 51, 85, 101, 0, 102, 255}}

\* The opcodes that name no register, with some that match no pattern.
NoRegOps ==
    {224, 238, 0, 225, 291}
        \cup {OpNNN(a, nnn) : a \in {1, 10, 11},
                              nnn \in {PROGRAM_START, PROGRAM_START + 4,
                                       MEMORY_SIZE - 2, MEMORY_SIZE - 1}}

\* Load Vx with a and Vy with b, then op.
load2(x, a, y, b, op) == <<OpXNN(6, x, a), OpXNN(6, y, b), op>>

FlagPrograms ==
    UNION { {load2(xy[1], ab[1], xy[2], ab[2], op) : op \in FlagOps(xy[1], xy[2])} :
            xy \in RegSamples \X RegSamples, ab \in ByteSamples \X ByteSamples }

TwoRegPrograms ==
    UNION { {load2(xy[1], ab[1], xy[2], ab[2], op) : op \in TwoRegOps(xy[1], xy[2])} :
            xy \in RegSamples \X RegSamples, ab \in {1, 5, 255} \X {1, 2} }

OneRegPrograms ==
    UNION { {load2(x, a, 0, 1, op) : op \in OneRegOps(x)} :
            x \in RegSamples, a \in {0, 1, 5, 128, 255} }

NoRegPrograms == {load2(0, a, 1, 1, op) : a \in {0, 2, 255}, op \in NoRegOps}

\* Set V0 and V1, set I, add V1 to I, then a store or a load through I.
MemoryPrograms ==
    {<<OpXNN(6, 0, a), OpXNN(6, 1, b), OpNNN(10, nnn), OpXNN(15, 1, 30),
       OpXNN(15, x, nn)>> :
        a \in {7, 157}, b \in {0, 3, 255}, nnn \in IndexSamples,
        x \in RegSamples, nn \in {51, 85, 101}}

\* The addresses the round trips store at: free memory, and the last x + 1
\* cells for x = 15 and for x = 1.
StoreSamples == {768, MEMORY_SIZE - 16, MEMORY_SIZE - 2}

\* Set V0 and V1, set I, store V0..Vx, overwrite V0 and V1, set I to the
\* same address, load V0..Vx.
RoundTripPrograms ==
    {<<OpXNN(6, 0, a), OpXNN(6, 1, b), OpNNN(10, nnn), OpXNN(15, x, 85),
       OpXNN(6, 0, 238), OpXNN(6, 1, 17), OpNNN(10, nnn), OpXNN(15, x, 101)>> :
        a \in {7, 157}, b \in {3, 255}, nnn \in StoreSamples, x \in RegSamples}

\* Set V0 = 255 and I = 0xFFF, then add V0 to I for ever.
IndexLoopPrograms ==
    {<<OpXNN(6, 0, 255), OpNNN(10, MEMORY_SIZE - 1), OpXNN(15, 0, 30),
       OpNNN(1, PROGRAM_START + 4)>>}

\* k nested calls, each from the instruction after a register load to the
\* instruction after itself; then set I, then 00EE.
call_chain(k) ==
    [j \in 1 .. (2 * k + 2) |->
        IF j = 2 * k + 1 THEN OpNNN(10, 291)
        ELSE IF j = 2 * k + 2 THEN 238
        ELSE IF j % 2 = 1 THEN OpXNN(6, (j + 1) \div 2, (j + 1) \div 2)
        ELSE OpNNN(2, PROGRAM_START + 2 * j)]

\* A call of its own address, and the call chains.
CallPrograms == {<<OpNNN(2, PROGRAM_START)>>} \cup {call_chain(k) : k \in 1 .. MaxNest}

Programs ==
    FlagPrograms \cup TwoRegPrograms \cup OneRegPrograms \cup NoRegPrograms
        \cup MemoryPrograms \cup RoundTripPrograms \cup IndexLoopPrograms
        \cup CallPrograms

\* Chip8::new()
Init ==
    /\ i = 0
    /\ pc = PROGRAM_START
    /\ sp = 0
    /\ v = [r \in Regs |-> 0]
    /\ stack = <<>>
    /\ memory = <<>>
    /\ delay_timer = 0
    /\ sound_timer = 0
    /\ wait_for_key = <<FALSE, 0>>
    /\ shift_vy = FALSE
    /\ ops = NoOps
    /\ panic = NoPanic
    /\ loaded = FALSE

\* The host sets the machine up before the first cycle: it writes a program
\* at PROGRAM_START and chooses the shift quirk.
host_setup ==
    /\ ~loaded
    /\ panic = NoPanic
    /\ \E prog \in Programs, quirk \in BOOLEAN :
        /\ memory' = rom_image(prog)
        /\ shift_vy' = quirk
        /\ loaded' = TRUE
        /\ UNCHANGED <<i, pc, v, stack, sp, timers, wait_for_key, ops, panic>>

\* The host calls reset().
host_reset ==
    /\ panic = NoPanic
    /\ reset
    /\ UNCHANGED <<shift_vy, ops, loaded>>

Next ==
    \/ host_setup
    \/ host_reset
    \/ execute_cycle

Spec == Init /\ [][Next]_vars

-----------------------------------------------------------------------------
(* What the properties below speak about.                                  *)

\* The next cycle fetches an opcode and check_opcode matches it against pat.
fetches(pat) ==
    /\ panic = NoPanic
    /\ get_opcode_fault = -1
    /\ decodes(get_opcode, pat)

\* The opcode stored at address a.
opcode_at(a) == MemRead(memory, a) * 256 + MemRead(memory, a + 1)

\* The machine fields a cycle can assign.
machine == <<i, pc, v, stack, sp, memory, delay_timer, sound_timer, wait_for_key>>

-----------------------------------------------------------------------------
\* C1: a cycle that executes a call 2NNN pushes the program counter p and
\* jumps to NNN, and a cycle that executes the return 00EE with a nonempty
\* stack sets the program counter to the address on top of the stack, takes
\* that one address off the stack, and leaves the registers and the index
\* register as they were.
C1_CallThenReturn ==
    [][ /\ (fetches(<<2, W, W, W>>) /\ execute_cycle)
            => /\ stack' = Append(stack, pc)
               /\ pc' = NNN(get_opcode)
        /\ (fetches(<<0, 0, 14, 14>>) /\ stack # <<>> /\ execute_cycle)
            => /\ pc' = stack[Len(stack)]
               /\ Len(stack') = Len(stack) - 1
               /\ v' = v
               /\ i' = i ]_vars

\* C2: 8XY5 with x other than VF leaves Vx = (Vx - Vy) mod 256 and VF = 1 iff
\* Vx >= Vy; 8XY7 with x other than VF leaves Vx = (Vy - Vx) mod 256 and
\* VF = 1 iff Vy >= Vx.
C2_SubtractFlag ==
    [][ /\ (fetches(<<8, W, W, 5>>) /\ X # FLAG /\ execute_cycle)
            => /\ v'[X] = (v[X] - v[Y]) % U8
               /\ v'[FLAG] = (IF v[X] >= v[Y] THEN 1 ELSE 0)
        /\ (fetches(<<8, W, W, 7>>) /\ X # FLAG /\ execute_cycle)
            => /\ v'[X] = (v[Y] - v[X]) % U8
               /\ v'[FLAG] = (IF v[Y] >= v[X] THEN 1 ELSE 0) ]_vars

\* C3: 8XY4 with x other than VF leaves Vx = (Vx + Vy) mod 256 and VF = 1 iff
\* Vx + Vy > 255, and advances the program counter by 2.
C3_AddCarry ==
    [][ (fetches(<<8, W, W, 4>>) /\ X # FLAG /\ execute_cycle)
            => /\ v'[X] = (v[X] + v[Y]) % U8
               /\ v'[FLAG] = (IF v[X] + v[Y] > 255 THEN 1 ELSE 0)
               /\ pc' = pc + 2
               /\ panic' = NoPanic ]_vars

\* C3's case: 8014 has just added V1 = 255 to V0 = 128, with a carry.
C3_Witness ==
    /\ ops = Op(8, 0, 1, 4)
    /\ pc = PROGRAM_START + 6
    /\ opcode_at(PROGRAM_START) = OpXNN(6, 0, 128)
    /\ v[1] = 255
    /\ v[0] = 127
    /\ v[FLAG] = 1

C5_ShiftLeft ==
    [][ (fetches(<<8, W, W, 14>>) /\ X # FLAG /\ execute_cycle)
            => LET s == v[IF shift_vy THEN Y ELSE X] IN
               /\ v'[X] = (2 * s) % U8
               /\ v'[FLAG] = (IF s >= 128 THEN 1 ELSE 0) ]_vars

\* C6: FX0A leaves the machine awaiting a key for register x with the program
\* counter where it was, and while the machine awaits a key a cycle changes
\* no field of the machine.  (The source has no operation that ends the
\* wait: nothing assigns wait_for_key but wait_vx.)
C6_WaitBlocks ==
    [][ /\ (fetches(<<15, W, 0, 10>>) /\ execute_cycle)
            => /\ wait_for_key' = <<TRUE, X>>
               /\ pc' = pc
        /\ (wait_for_key[1] /\ execute_cycle)
            => UNCHANGED machine ]_vars

\* C7: the stack never holds more than STACK_SIZE addresses.
C7_StackBounded == Len(stack) <= STACK_SIZE

\* C8: a cycle that executes 00EE with an empty stack ends in an error and
\* does not move the program counter.
C8_ReturnOnEmptyStack ==
    [][ (fetches(<<0, 0, 14, 14>>) /\ stack = <<>> /\ execute_cycle)
            => /\ panic' # NoPanic
               /\ pc' = pc ]_vars

\* The opcodes C9 names as matching no pattern.
reserved(op) ==
    LET a == (op \div 4096) % 16
        n == op % 16
        nn == op % 256
    IN
    \/ a = 0 /\ op # 224 /\ op # 238
    \/ a = 5 /\ n # 0
    \/ a = 9 /\ n # 0
    \/ a = 8 /\ n \in {8, 9, 10, 11, 12, 13, 15}
    \/ a = 14 /\ nn \notin {158, 161}
    \/ a = 15 /\ nn \notin {7, 10, 21, 24, 30, 41, 51, 85, 101}

\* The number a sequence of hexadecimal digits writes.
RECURSIVE ParseHex(_)
ParseHex(digits) ==
    IF digits = <<>> THEN 0
    ELSE 16 * ParseHex(SubSeq(digits, 1, Len(digits) - 1))
         + (CHOOSE d \in 0 .. 15 : HexChars[d + 1] = digits[Len(digits)])

first_out(from) == IF from >= MEMORY_SIZE THEN from ELSE MEMORY_SIZE

\* The cells that the indexes base .. base + n would be if they wrapped.
wrapped(base, n) ==
    {(base + k) % MEMORY_SIZE : k \in {k1 \in 0 .. n : base + k1 >= MEMORY_SIZE}}

cells_outside(mem1, mem2, from, to) ==
    ((DOMAIN mem1) \cup (DOMAIN mem2)) \ (from .. to)

\* The program in memory is a round trip through FX55 and FX65 for x, and
\* the next cycle executes its FX65.
at_round_trip_load ==
    /\ loaded
    /\ pc = PROGRAM_START + 14
    /\ opcode_at(PROGRAM_START + 6) = OpXNN(15, X, 85)
    /\ opcode_at(PROGRAM_START + 4) = opcode_at(PROGRAM_START + 12)
    /\ op_tuple(opcode_at(PROGRAM_START + 4))[1] = 10
    /\ i = NNN(opcode_at(PROGRAM_START + 4))

\* C11: FX55 with I + x < 4096 copies V0..Vx to memory[I .. I + x], changes
\* no register and no other cell, and leaves I = I + x + 1; FX65 with
\* I + x < 4096 loads V0..Vx from memory[I .. I + x], changes no register
\* above x and no cell, and leaves I = I + x + 1; and the FX65 of a program
\* that stored V0..Vx at I0 with FX55, overwrote V0 and V1 and set I back to
\* I0 leaves V0..Vx as the program first loaded them.
C11_BlockRoundTrip ==
    [][ /\ (fetches(<<15, W, 5, 5>>) /\ i + X < MEMORY_SIZE /\ execute_cycle)
            => /\ \A k \in 0 .. X : MemRead(memory', i + k) = v[k]
               /\ \A a \in cells_outside(memory, memory', i, i + X) :
                      MemRead(memory', a) = MemRead(memory, a)
               /\ v' = v
               /\ i' = i + X + 1
               /\ panic' = NoPanic
        /\ (fetches(<<15, W, 6, 5>>) /\ i + X < MEMORY_SIZE /\ execute_cycle)
            => /\ \A k \in 0 .. X : v'[k] = MemRead(memory, i + k)
               /\ \A k \in Regs : k > X => v'[k] = v[k]
               /\ memory' = memory
               /\ i' = i + X + 1
               /\ panic' = NoPanic
        /\ (fetches(<<15, W, 6, 5>>) /\ at_round_trip_load /\ execute_cycle)
            => /\ v'[0] = NN(opcode_at(PROGRAM_START))
               /\ X >= 1 => v'[1] = NN(opcode_at(PROGRAM_START + 2))
               /\ X = 0 => v'[1] = NN(opcode_at(PROGRAM_START + 10))
               /\ \A k \in 2 .. X : v'[k] = 0
               /\ i' = NNN(opcode_at(PROGRAM_START + 4)) + X + 1 ]_vars

\* C11's case: F155 stored V0 = 157 and V1 = 255 in the last two cells, both
\* registers were overwritten, and F165 has loaded them back.
C11_Witness ==
    /\ ops = OpXNN(15, 1, 101)
    /\ pc = PROGRAM_START + 16
    /\ opcode_at(PROGRAM_START + 6) = OpXNN(15, 1, 85)
    /\ opcode_at(PROGRAM_START + 8) = OpXNN(6, 0, 238)
    /\ MemRead(memory, MEMORY_SIZE - 2) = 157
    /\ MemRead(memory, MEMORY_SIZE - 1) = 255
    /\ v[0] = 157
    /\ v[1] = 255
    /\ i = MEMORY_SIZE

\* C12: FX33 with I + 2 < 4096 stores the hundreds, tens and units digits of
\* Vx at I, I + 1 and I + 2, changes no other cell, no register and not I,
\* and advances the program counter by 2.
C12_BcdStore ==
    [][ (fetches(<<15, W, 3, 3>>) /\ i + 2 < MEMORY_SIZE /\ execute_cycle)
            => LET m0 == MemRead(memory', i)
                   m1 == MemRead(memory', i + 1)
                   m2 == MemRead(memory', i + 2)
               IN
               /\ m0 = v[X] \div 100
               /\ m1 = (v[X] \div 10) % 10
               /\ m2 = v[X] % 10
               /\ 100 * m0 + 10 * m1 + m2 = v[X]
               /\ {m0, m1, m2} \subseteq 0 .. 9
               /\ \A a \in cells_outside(memory, memory', i, i + 2) :
                      MemRead(memory', a) = MemRead(memory, a)
               /\ v' = v
               /\ i' = i
               /\ pc' = pc + 2
               /\ panic' = NoPanic ]_vars

\* C12's case: F033 with V0 = 157 and I = 0x300 has stored 1, 5, 7.
C12_Witness ==
    /\ ops = OpXNN(15, 0, 51)
    /\ pc = PROGRAM_START + 10
    /\ v[0] = 157
    /\ i = 768
    /\ MemRead(memory, 768) = 1
    /\ MemRead(memory, 769) = 5
    /\ MemRead(memory, 770) = 7
    /\ panic = NoPanic

\* C13: BNNN sets the program counter to NNN + V0 and changes no register.
C13_JumpWithOffset ==
    [][ (fetches(<<11, W, W, W>>) /\ execute_cycle)
            => /\ pc' = NNN(get_opcode) + v[0]
               /\ v' = v ]_vars

\* The machine fields other than the program counter.
machine_but_pc == <<i, v, stack, sp, memory, delay_timer, sound_timer, wait_for_key>>

\* C14: 3XNN, 4XNN, 5XY0 and 9XY0 advance the program counter by 4 when
\* their condition holds and by 2 when it does not; EX9E and EXA1 advance it
\* by 4 or by 2; none of them changes anything else.
C14_SkipsAdvance ==
    [][ /\ (fetches(<<3, W, W, W>>) /\ execute_cycle)
            => pc' = pc + (IF v[X] = NN(get_opcode) THEN 4 ELSE 2)
        /\ (fetches(<<4, W, W, W>>) /\ execute_cycle)
            => pc' = pc + (IF v[X] # NN(get_opcode) THEN 4 ELSE 2)
        /\ (fetches(<<5, W, W, 0>>) /\ execute_cycle)
            => pc' = pc + (IF v[X] = v[Y] THEN 4 ELSE 2)
        /\ (fetches(<<9, W, W, 0>>) /\ execute_cycle)
            => pc' = pc + (IF v[X] # v[Y] THEN 4 ELSE 2)
        /\ ((fetches(<<14, W, 9, 14>>) \/ fetches(<<14, W, 10, 1>>)) /\ execute_cycle)
            => pc' \in {pc + 2, pc + 4}
        /\ ((\E a \in {3, 4} : fetches(<<a, W, W, W>>)) /\ execute_cycle)
            => UNCHANGED machine_but_pc
        /\ ((\E a \in {5, 9} : fetches(<<a, W, W, 0>>)) /\ execute_cycle)
            => UNCHANGED machine_but_pc
        /\ ((fetches(<<14, W, 9, 14>>) \/ fetches(<<14, W, 10, 1>>)) /\ execute_cycle)
            => UNCHANGED machine_but_pc ]_vars

\* C15: reset, called by the host or by the 00EE arm, zeroes the sixteen
\* registers, empties the stack, sets the program counter to PROGRAM_START
\* and the index register to 0, and leaves every memory cell as it was.
C15_ResetKeepsMemory ==
    [][ (host_reset \/ (fetches(<<0, 0, 14, 14>>) /\ execute_cycle))
            => /\ \A r \in Regs : v'[r] = 0
               /\ stack' = <<>>
               /\ pc' = PROGRAM_START
               /\ i' = 0
               /\ \A a \in cells_outside(memory, memory', 0, -1) :
                      MemRead(memory', a) = MemRead(memory, a) ]_vars

\* C15's case: the program stored the digits of 157 at 0x300 and the machine
\* was reset afterwards: the registers are zero, the digits and the program
\* are still there.
C15_Witness ==
    /\ ops = OpXNN(15, 0, 51)
    /\ pc = PROGRAM_START
    /\ i = 0
    /\ v[0] = 0
    /\ stack = <<>>
    /\ opcode_at(PROGRAM_START) = OpXNN(6, 0, 157)
    /\ MemRead(memory, 768) = 1
    /\ MemRead(memory, 769) = 5
    /\ MemRead(memory, 770) = 7

\* The five bytes of glyph d are at memory[5 * d .. 5 * d + 4].
glyph_resident(d) ==
    \A k \in 0 .. 4 : MemRead(memory, 5 * d + k) = FONT_SET[5 * d + k + 1]

\* C16: as long as no cycle has run, every glyph of FONT_SET is resident in
\* memory at five times its digit.
C16_FontResident ==
    ops = NoOps => \A d \in 0 .. 15 : glyph_resident(d)

\* The patterns of the instructions C17 names: 00E0, 6XNN, 7XNN, 8XY0 to
\* 8XY7, 8XYE, ANNN, CXNN, DXYN, FX07, FX15, FX18, FX1E, FX29, FX33, FX55, FX65.
PlainPatterns ==
    { <<0, 0, 14, 0>>, <<6, W, W, W>>, <<7, W, W, W>>, <<8, W, W, 0>>,
      <<8, W, W, 1>>, <<8, W, W, 2>>, <<8, W, W, 3>>, <<8, W, W, 4>>,
      <<8, W, W, 5>>, <<8, W, W, 6>>, <<8, W, W, 7>>, <<8, W, W, 14>>,
      <<10, W, W, W>>, <<12, W, W, W>>, <<13, W, W, W>>, <<15, W, 0, 7>>,
      <<15, W, 1, 5>>, <<15, W, 1, 8>>, <<15, W, 1, 14>>, <<15, W, 2, 9>>,
      <<15, W, 3, 3>>, <<15, W, 5, 5>>, <<15, W, 6, 5>> }

\* C17: a cycle that executes one of the instructions of PlainPatterns and
\* does not end in an error advances the program counter by exactly 2.
C17_PlainAdvanceByTwo ==
    [][ ((\E pat \in PlainPatterns : fetches(pat)) /\ execute_cycle
            /\ panic' = NoPanic)
            => pc' = pc + 2 ]_vars

\* C17's case: 8013, the third instruction of its program, has run.
C17_Witness ==
    /\ ops = Op(8, 0, 1, 3)
    /\ pc = PROGRAM_START + 6
    /\ v[0] = 4
    /\ v[1] = 1
    /\ panic = NoPanic

\* C18: FX29 leaves I = 5 * Vx, does not end in an error, and advances the
\* program counter by 2.
C18_SpriteAddress ==
    [][ (fetches(<<15, W, 2, 9>>) /\ execute_cycle)
            => /\ i' = 5 * v[X]
               /\ panic' = NoPanic
               /\ pc' = pc + 2 ]_vars

\* C19: FX1E leaves I = (I + Vx) mod 2^16, within 0 .. 65535, and does not
\* end in an error.
C19_IndexAddWraps ==
    [][ (fetches(<<15, W, 1, 14>>) /\ execute_cycle)
            => /\ i' = (i + v[X]) % U16
               /\ i' \in 0 .. (U16 - 1)
               /\ panic' = NoPanic ]_vars

\* C20: with x = F, 8XY4 leaves VF = 1 iff VF + Vy > 255, 8XY5 leaves VF = 1
\* iff VF >= Vy and 8XY7 leaves VF = 1 iff Vy >= VF: VF holds the flag of the
\* operation, not its result.
C20_FlagWins ==
    [][ /\ (fetches(<<8, W, W, 4>>) /\ X = FLAG /\ execute_cycle)
            => v'[FLAG] = (IF v[FLAG] + v[Y] > 255 THEN 1 ELSE 0)
        /\ (fetches(<<8, W, W, 5>>) /\ X = FLAG /\ execute_cycle)
            => v'[FLAG] = (IF v[FLAG] >= v[Y] THEN 1 ELSE 0)
        /\ (fetches(<<8, W, W, 7>>) /\ X = FLAG /\ execute_cycle)
            => v'[FLAG] = (IF v[Y] >= v[FLAG] THEN 1 ELSE 0) ]_vars

=============================================================================
